---- MODULE Spec2Model ----
(***************************************************************************)
(* Model of go-csp: the Content-Security-Policy text codec (csp.go), the   *)
(* header middleware (csp.go) and the violation-report route handler.      *)
(*                                                                         *)
(* Go strings are modelled as sequences of one-character strings, so that  *)
(* strings.Split, strings.SplitN, strings.TrimSpace and strings.Join act   *)
(* on characters exactly as the library does.  A nil slice and an empty    *)
(* slice are both the empty sequence: the code only ever takes len() of a  *)
(* source list or joins it.                                                *)
(***************************************************************************)
EXTENDS Naturals, Sequences, FiniteSets, TLC

VARIABLES
    c,        \* the policy value a caller builds, encodes and wraps handlers with
    pc,       \* position of the codec scenario: "built", "marshalled", "unmarshalled"
    out,      \* what c.MarshalText() returned: [txt, err]
    d,        \* the policy UnmarshalText is called on
    dpre,     \* d as it was before the UnmarshalText call
    text,     \* the bytes given to UnmarshalText
    derr,     \* the error UnmarshalText returned
    segs,     \* the segments the decoded header text was written from
    wrapped,  \* the handlers c.Handler was called with (each call returned c)
    req,      \* the request served by the middleware, and what it did
    handlers, \* the reportHandler and errorHandler RouteHandler selected
    rq,       \* the request given to the report route: content type and body
    hpc,      \* position of the report route's handler
    log,      \* the calls the report route's handler made, in order
    w,        \* the response writer of the report route
    io,       \* the request body of the report route: read, closed
    rep       \* the cspReport json.Unmarshal filled

codecVars == <<c, pc, out, d, dpre, text, derr, segs>>
serveVars == <<wrapped, req>>
reportVars == <<handlers, rq, hpc, log, w, io, rep>>
vars == <<c, pc, out, d, dpre, text, derr, segs, wrapped, req, handlers, rq, hpc, log, w, io, rep>>

Nil == "nil"
NoText == <<"<none>">>

(***************************************************************************)
(* Program constants of csp.go.                                            *)
(***************************************************************************)
HeaderPolicy == "Content-Security-Policy"
HeaderReportOnly == "Content-Security-Policy-Report-Only"

SourceNone ==
    <<"'", "n", "o", "n", "e", "'">>
SourceSelf ==
    <<"'", "s", "e", "l", "f", "'">>

childSrc ==
    <<"c", "h", "i", "l", "d", "-", "s", "r", "c">>
connectSrc ==
    <<"c", "o", "n", "n", "e", "c", "t", "-", "s", "r", "c">>
defaultSrc ==
    <<"d", "e", "f", "a", "u", "l", "t", "-", "s", "r", "c">>
fontSrc ==
    <<"f", "o", "n", "t", "-", "s", "r", "c">>
frameSrc ==
    <<"f", "r", "a", "m", "e", "-", "s", "r", "c">>
imgSrc ==
    <<"i", "m", "g", "-", "s", "r", "c">>
manifestSrc ==
    <<"m", "a", "n", "i", "f", "e", "s", "t", "-", "s", "r", "c">>
mediaSrc ==
    <<"m", "e", "d", "i", "a", "-", "s", "r", "c">>
objectSrc ==
    <<"o", "b", "j", "e", "c", "t", "-", "s", "r", "c">>
scriptSrc ==
    <<"s", "c", "r", "i", "p", "t", "-", "s", "r", "c">>
styleSrc ==
    <<"s", "t", "y", "l", "e", "-", "s", "r", "c">>
workerSrc ==
    <<"w", "o", "r", "k", "e", "r", "-", "s", "r", "c">>
reportTo ==
    <<"r", "e", "p", "o", "r", "t", "-", "t", "o">>

(***************************************************************************)
(* The Go strings package, on character sequences.                         *)
(***************************************************************************)
\* unicode.IsSpace restricted to the whitespace of the model's alphabet.
IsSpace(ch) == ch \in {" ", "\t"}

RECURSIVE TrimLeft(_)
TrimLeft(s) ==
    IF s # <<>> /\ IsSpace(Head(s)) THEN TrimLeft(Tail(s)) ELSE s

RECURSIVE TrimRight(_)
TrimRight(s) ==
    IF s # <<>> /\ IsSpace(s[Len(s)]) THEN TrimRight(SubSeq(s, 1, Len(s) - 1)) ELSE s

\* strings.TrimSpace
TrimSpace(s) == TrimRight(TrimLeft(s))

\* Index of the first occurrence of the character sep in s, or 0.
RECURSIVE IndexFrom(_, _, _)
IndexFrom(s, sep, i) ==
    IF i > Len(s) THEN 0
    ELSE IF s[i] = sep THEN i
    ELSE IndexFrom(s, sep, i + 1)

\* strings.Split(s, sep) for a one-character separator: always at least one part.
RECURSIVE Split(_, _)
Split(s, sep) ==
    LET i == IndexFrom(s, sep, 1)
    IN  IF i = 0 THEN <<s>>
        ELSE <<SubSeq(s, 1, i - 1)>> \o Split(SubSeq(s, i + 1, Len(s)), sep)

\* strings.SplitN(s, sep, 2) for a one-character separator.
SplitN2(s, sep) ==
    LET i == IndexFrom(s, sep, 1)
    IN  IF i = 0 THEN <<s>>
        ELSE <<SubSeq(s, 1, i - 1), SubSeq(s, i + 1, Len(s))>>

\* strings.Join(elems, sep)
RECURSIVE Join(_, _)
Join(elems, sep) ==
    IF elems = <<>> THEN <<>>
    ELSE IF Len(elems) = 1 THEN elems[1]
    ELSE elems[1] \o sep \o Join(Tail(elems), sep)

\* fmt.Sprintf("%s %s", a, b)
Sprintf(a, b) == a \o <<" ">> \o b

(***************************************************************************)
(* SourceList                                                              *)
(***************************************************************************)
NewSourceList(sources) == sources

SourceListMarshalText(s) == Join(s, <<" ">>)

\* Mutant: the value is stored whole instead of being split into tokens.
SourceListUnmarshalText_NoSplit(txt) == <<txt>>

SourceListUnmarshalText(txt) == Split(txt, " ")

(***************************************************************************)
(* CSP                                                                     *)
(***************************************************************************)
\* The zero value CSP{}.
ZeroCSP ==
    [ReportOnly |-> FALSE,
     ChildSrc |-> <<>>, ConnectSrc |-> <<>>, DefaultSrc |-> <<>>, FontSrc |-> <<>>,
     FrameSrc |-> <<>>, ImgSrc |-> <<>>, ManifestSrc |-> <<>>, MediaSrc |-> <<>>,
     ObjectSrc |-> <<>>, ScriptSrc |-> <<>>, StyleSrc |-> <<>>, WorkerSrc |-> <<>>,
     ReportTo |-> <<>>,
     h |-> Nil]

Default ==
    [ZeroCSP EXCEPT
        !.DefaultSrc = NewSourceList(<<SourceNone>>),
        !.ScriptSrc = NewSourceList(<<SourceSelf>>),
        !.ConnectSrc = NewSourceList(<<SourceSelf>>),
        !.ImgSrc = NewSourceList(<<SourceSelf>>),
        !.StyleSrc = NewSourceList(<<SourceSelf>>)]

\* One "if len(c.X) != 0 { policies = append(policies, Sprintf(name, txt)) }".
AppendSrc(policies, list, name) ==
    IF Len(list) # 0
    THEN Append(policies, Sprintf(name, SourceListMarshalText(list)))
    ELSE policies

\* The policies slice of MarshalText after its thirteen conditional appends.
MarshalPolicies(p) ==
    LET p1 == AppendSrc(<<>>, p.DefaultSrc, defaultSrc)
        p2 == AppendSrc(p1, p.ChildSrc, childSrc)
        p3 == AppendSrc(p2, p.ConnectSrc, connectSrc)
        p4 == AppendSrc(p3, p.FontSrc, fontSrc)
        p5 == AppendSrc(p4, p.FrameSrc, frameSrc)
        p6 == AppendSrc(p5, p.ImgSrc, imgSrc)
        p7 == AppendSrc(p6, p.ManifestSrc, manifestSrc)
        p8 == AppendSrc(p7, p.MediaSrc, mediaSrc)
        p9 == AppendSrc(p8, p.ObjectSrc, objectSrc)
        p10 == AppendSrc(p9, p.ScriptSrc, scriptSrc)
        p11 == AppendSrc(p10, p.StyleSrc, styleSrc)
        p12 == AppendSrc(p11, p.WorkerSrc, workerSrc)
    IN  IF p.ReportTo # <<>>
        THEN Append(p12, Sprintf(reportTo, p.ReportTo))
        ELSE p12

\* (c *CSP) MarshalText: the text and the error returned.
MarshalText(p) ==
    [txt |-> TrimSpace(Join(MarshalPolicies(p), <<";", " ">>)), err |-> Nil]

\* The switch of UnmarshalText on the directive name k with value v.
SetDirective(p, k, v) ==
    CASE k = childSrc -> [p EXCEPT !.ChildSrc = SourceListUnmarshalText(v)]
      [] k = connectSrc -> [p EXCEPT !.ConnectSrc = SourceListUnmarshalText(v)]
      [] k = defaultSrc -> [p EXCEPT !.DefaultSrc = SourceListUnmarshalText(v)]
      [] k = fontSrc -> [p EXCEPT !.FontSrc = SourceListUnmarshalText(v)]
      [] k = frameSrc -> [p EXCEPT !.FrameSrc = SourceListUnmarshalText(v)]
      [] k = imgSrc -> [p EXCEPT !.ImgSrc = SourceListUnmarshalText(v)]
      [] k = manifestSrc -> [p EXCEPT !.ManifestSrc = SourceListUnmarshalText(v)]
      [] k = mediaSrc -> [p EXCEPT !.MediaSrc = SourceListUnmarshalText(v)]
      [] k = objectSrc -> [p EXCEPT !.ObjectSrc = SourceListUnmarshalText(v)]
      [] k = scriptSrc -> [p EXCEPT !.ScriptSrc = SourceListUnmarshalText(v)]
      [] k = styleSrc -> [p EXCEPT !.StyleSrc = SourceListUnmarshalText(v)]
      [] k = workerSrc -> [p EXCEPT !.WorkerSrc = SourceListUnmarshalText(v)]
      [] k = reportTo -> [p EXCEPT !.ReportTo = v]
      [] OTHER -> p

\* One iteration of the loop of UnmarshalText over the segment seg.
UnmarshalSegment(p, seg) ==
    LET l == SplitN2(TrimSpace(seg), " ")
    IN  IF seg = <<>> \/ Len(l) # 2 THEN p
        ELSE SetDirective(p, TrimSpace(l[1]), TrimSpace(l[2]))

\* Mutant: a segment that is skipped ends the loop (break for continue).
RECURSIVE UnmarshalLoop_Break(_, _)
UnmarshalLoop_Break(p, policies) ==
    IF policies = <<>> THEN p
    ELSE IF Head(policies) = <<>> \/ Len(SplitN2(TrimSpace(Head(policies)), " ")) # 2
    THEN p
    ELSE UnmarshalLoop_Break(UnmarshalSegment(p, Head(policies)), Tail(policies))

RECURSIVE UnmarshalLoop(_, _)
UnmarshalLoop(p, policies) ==
    IF policies = <<>> THEN p
    ELSE UnmarshalLoop(UnmarshalSegment(p, Head(policies)), Tail(policies))

\* Mutant: the receiver is reset before the text is decoded into it.
UnmarshalText_Replace(p, txt) ==
    [csp |-> UnmarshalLoop(ZeroCSP, Split(txt, ";")), err |-> Nil]

\* (c *CSP) UnmarshalText: the receiver afterwards and the error returned.
UnmarshalText(p, txt) ==
    [csp |-> UnmarshalLoop(p, Split(txt, ";")), err |-> Nil]

(***************************************************************************)
(* The middleware: (c *CSP) Handler and (c *CSP) ServeHTTP.                *)
(***************************************************************************)
\* w.Header().Set(key, val) on a header held as a set of <<name, value>> pairs.
HeaderSet(header, key, val) ==
    {e \in header : e[1] # key} \cup {<<key, val>>}

\* (c *CSP) Handler(h): the policy afterwards; the handler returned is c itself.
Handler(p, h) == [p EXCEPT !.h = h]

\* (c *CSP) ServeHTTP on a response with the given headers: the headers
\* afterwards and the downstream calls made, each with the headers it saw.
ServeHTTP(p, header) ==
    LET key == IF p.ReportOnly THEN HeaderReportOnly ELSE HeaderPolicy
        m == MarshalText(p)
    IN  IF m.err # Nil THEN [header |-> header, calls |-> <<>>]
        ELSE LET hd == HeaderSet(header, key, m.txt)
             IN  [header |-> hd, calls |-> <<[h |-> p.h, header |-> hd]>>]

(***************************************************************************)
(* The report route: RouteHandler and its collaborators.                   *)
(***************************************************************************)
ReportContentType == "application/csp-report"

StatusOK == 200
StatusBadRequest == 400
StatusUnsupportedMediaType == 415
StatusInternalServerError == 500

\* The zero value Report{}.
ZeroReport ==
    [DocumentURI |-> "", Referrer |-> "", BlockedURI |-> "",
     EffectiveDirective |-> "", ViolatedDirective |-> "", OriginalPolicy |-> "",
     Disposition |-> "", StatusCode |-> 0]

\* The json tags of Report: <<field, key, JSON kind the Go type accepts>>.
ReportTags ==
    {<<"DocumentURI", "document-uri", "string">>,
     <<"Referrer", "referrer", "string">>,
     <<"BlockedURI", "blocked-uri", "string">>,
     <<"EffectiveDirective", "effective-directive", "string">>,
     <<"ViolatedDirective", "violated-directive", "string">>,
     <<"OriginalPolicy", "original-policy", "string">>,
     <<"Disposition", "disposition", "string">>,
     <<"StatusCode", "status", "number">>}

ErrSyntax == "invalid character 'x' looking for beginning of value"
ErrType == "json: cannot unmarshal value into Go struct field"
ErrUnsupported == "Unsupported content type (expected application/csp-report)"

\* json.Unmarshal(body, &rep) into cspReport{Report `json:"csp-report"`}.  A
\* document is [kind, s, n, m]: kind is "malformed", "null", "array", "string"
\* (with text s), "number" (with value n) or "object" (with members m, a
\* function from member names to documents).
jsonUnmarshal(doc) ==
    IF doc.kind = "malformed" THEN [rep |-> ZeroReport, err |-> ErrSyntax]
    ELSE IF doc.kind = "null" THEN [rep |-> ZeroReport, err |-> Nil]
    ELSE IF doc.kind # "object" THEN [rep |-> ZeroReport, err |-> ErrType]
    ELSE IF "csp-report" \notin DOMAIN doc.m THEN [rep |-> ZeroReport, err |-> Nil]
    ELSE LET r == doc.m["csp-report"]
         IN  IF r.kind = "null" THEN [rep |-> ZeroReport, err |-> Nil]
             ELSE IF r.kind # "object" THEN [rep |-> ZeroReport, err |-> ErrType]
             ELSE LET fits(t) == t[2] \in DOMAIN r.m /\ r.m[t[2]].kind = t[3]
                      clash(t) == t[2] \in DOMAIN r.m
                                     /\ r.m[t[2]].kind \notin {t[3], "null"}
                      tagOf(f) == CHOOSE t \in ReportTags : t[1] = f
                      valueOf(t) == IF t[3] = "number" THEN r.m[t[2]].n ELSE r.m[t[2]].s
                  IN  [rep |-> [f \in DOMAIN ZeroReport |->
                                   IF fits(tagOf(f)) THEN valueOf(tagOf(f))
                                   ELSE ZeroReport[f]],
                       err |-> IF \E t \in ReportTags : clash(t) THEN ErrType ELSE Nil]

\* http.ResponseWriter: a fresh writer, Write and WriteHeader.
NewWriter == [wroteHeader |-> FALSE, status |-> 0, body |-> <<>>]

WriteHeader(rw, status) ==
    IF rw.wroteHeader THEN rw
    ELSE [rw EXCEPT !.wroteHeader = TRUE, !.status = status]

Write(rw, bytes) ==
    LET committed == WriteHeader(rw, StatusOK)
    IN  [committed EXCEPT !.body = Append(committed.body, bytes)]

\* The status the client receives once the handler has returned.
ResponseStatus(rw) == IF rw.wroteHeader THEN rw.status ELSE StatusOK

\* (e *defaultErrorHandler) Error: the writer afterwards.
defaultErrorHandlerError(rw, status, err) ==
    WriteHeader(Write(rw, err), status)

\* (l *defaultLogReporter) Report: the error returned.
defaultLogReporterReport(r) == Nil

\* The option loop of RouteHandler over opts, each option one of the kinds
\* "reporter", "errorHandler", "both" (implements both interfaces), "other".
RECURSIVE RouteHandlerOpts(_, _)
RouteHandlerOpts(sel, opts) ==
    IF opts = <<>> THEN sel
    ELSE LET opt == Head(opts)
             s1 == IF opt \in {"reporter", "both"} THEN [sel EXCEPT !.report = opt] ELSE sel
             s2 == IF opt \in {"errorHandler", "both"} THEN [s1 EXCEPT !.error = opt] ELSE s1
         IN  RouteHandlerOpts(s2, Tail(opts))

RouteHandler(opts) ==
    RouteHandlerOpts([report |-> "default", error |-> "default"], opts)

\* One event of the handler's log.
Event(kind, status, err, r) == [kind |-> kind, status |-> status, err |-> err, rep |-> r]

(***************************************************************************)
(* Inputs of the codec scenario: the policies a caller builds.             *)
(***************************************************************************)
\* Most tokens a caller passes to one NewSourceList call.
MaxLen == 2

\* Tokens: a well-formed one, and ones that are empty, whitespace or hold a
\* separator character.
Tokens ==
    {<<"a">>, <<"b">>, <<>>, <<"\t">>, <<"a", " ", "b">>, <<";">>}

PlainTokens == {<<"a">>, <<"c">>}

RECURSIVE SeqsUpTo(_, _)
SeqsUpTo(S, n) ==
    IF n = 0 THEN {<<>>}
    ELSE LET shorter == SeqsUpTo(S, n - 1)
         IN  shorter \cup {Append(l, t) : l \in {x \in shorter : Len(x) = n - 1}, t \in S}

SrcFields ==
    {"ChildSrc", "ConnectSrc", "DefaultSrc", "FontSrc", "FrameSrc", "ImgSrc",
     "ManifestSrc", "MediaSrc", "ObjectSrc", "ScriptSrc", "StyleSrc", "WorkerSrc"}

\* Values a caller stores in ReportTo.
Scalars ==
    {<<"x">>, <<"x", " ", "y">>, <<" ", "x">>, <<"x", "\t">>, <<"x", ";", "y">>}

\* A field assignment <<field, value>> of a struct literal.
AnyAssignments ==
    (SrcFields \X {NewSourceList(l) : l \in SeqsUpTo(Tokens, MaxLen)})
        \cup ({"ReportTo"} \X Scalars)
        \cup ({"ReportOnly"} \X BOOLEAN)

PlainAssignments ==
    (SrcFields \X {NewSourceList(l) : l \in {<<t>> : t \in PlainTokens}})
        \cup ({"ReportTo"} \X {<<"x">>})
        \cup ({"ReportOnly"} \X BOOLEAN)
        \cup ({"h"} \X {"h1"})

Assign(p, a) == [p EXCEPT ![a[1]] = a[2]]

\* Policies with up to two fields populated, and the default policy.
Policies ==
    {Assign(Assign(ZeroCSP, a), b) : a \in AnyAssignments, b \in PlainAssignments}
        \cup {Default, [Default EXCEPT !.ReportOnly = TRUE]}

NoResult == [txt |-> NoText, err |-> Nil]
NoReq == [via |-> Nil, before |-> {}, header |-> {}, calls |-> <<>>]
NoMembers == [k \in {} |-> ""]
Null == [kind |-> "null", s |-> "", n |-> 0, m |-> NoMembers]
NoRq == [contentType |-> "<none>", body |-> [readErr |-> Nil, json |-> Null]]

\* The parts of the state a scenario does not use.
CodecIdle ==
    /\ c = ZeroCSP /\ pc = "off" /\ out = NoResult
    /\ d = ZeroCSP /\ dpre = ZeroCSP /\ text = NoText /\ derr = Nil /\ segs = <<>>

ServeIdle == wrapped = {} /\ req = NoReq

ReportIdle ==
    /\ handlers = [report |-> "default", error |-> "default"]
    /\ rq = NoRq /\ hpc = "off" /\ log = <<>>
    /\ w = NewWriter /\ io = [read |-> FALSE, closed |-> FALSE] /\ rep = ZeroReport

(***************************************************************************)
(* The codec scenario (csp_test.go, "Marshal Unmarshal"): a policy is      *)
(* built, encoded, and the text is decoded into a fresh CSP{}.             *)
(***************************************************************************)
InitCodec ==
    /\ c \in Policies
    /\ pc = "built"
    /\ out = NoResult
    /\ d = ZeroCSP
    /\ dpre = ZeroCSP
    /\ text = NoText
    /\ derr = Nil
    /\ segs = <<>>
    /\ ServeIdle
    /\ ReportIdle

\* txt, err := v.csp.MarshalText()
Marshal ==
    /\ pc = "built"
    /\ out' = MarshalText(c)
    /\ pc' = "marshalled"
    /\ UNCHANGED <<c, d, dpre, text, derr, segs, serveVars, reportVars>>

\* csp2 := CSP{}; err = csp2.UnmarshalText(txt)
Unmarshal ==
    /\ pc = "marshalled"
    /\ LET r == UnmarshalText(d, out.txt)
       IN  /\ dpre' = d
           /\ text' = out.txt
           /\ d' = r.csp
           /\ derr' = r.err
    /\ pc' = "unmarshalled"
    /\ UNCHANGED <<c, out, segs, serveVars, reportVars>>

NextCodec == Marshal \/ Unmarshal

SpecCodec == InitCodec /\ [][NextCodec]_vars

(***************************************************************************)
(* The decode scenario: a header text some other party wrote is decoded    *)
(* into a policy that may already hold values.                             *)
(***************************************************************************)
\* Most ';'-separated segments of one decoded text.
MaxSegs == 2

DirectiveNames ==
    {childSrc, connectSrc, defaultSrc, fontSrc, frameSrc, imgSrc, manifestSrc,
     mediaSrc, objectSrc, scriptSrc, styleSrc, workerSrc, reportTo}

\* Segments of a header text: every directive name with a value, and segments
\* that are empty, blank, bare, padded, tab-separated or unknown.
Segments ==
    {n \o <<" ", "a">> : n \in DirectiveNames}
        \cup {<<>>,
              <<" ">>,
              defaultSrc,
              imgSrc \o <<" ">>,
              <<" ">> \o defaultSrc \o <<" ", "b", " ", "a">>,
              defaultSrc \o <<" ", " ", "b", "\t">>,
              defaultSrc \o <<"\t", "a">>,
              imgSrc \o <<"\t", " ", "b">>,
              reportTo \o <<" ", " ", "x", " ", "y", " ">>,
              <<"x", "-", "s", "r", "c", " ", "a">>,
              <<"I", "m", "g", "-", "s", "r", "c", " ", "a">>}

\* Policies the text is decoded into: a fresh one, and ones already in use.
PrePolicies ==
    {ZeroCSP,
     [Default EXCEPT !.ReportOnly = TRUE, !.h = "h1"],
     [ZeroCSP EXCEPT !.WorkerSrc = <<<<"a">>, <<"b">>>>, !.ReportTo = <<"x">>]}

InitDecode ==
    /\ d \in PrePolicies
    /\ dpre = d
    /\ pc = "idle"
    /\ text = NoText
    /\ derr = Nil
    /\ segs = <<>>
    /\ c = ZeroCSP
    /\ out = NoResult
    /\ ServeIdle
    /\ ReportIdle

\* err := d.UnmarshalText([]byte(strings.Join(segs, ";")))
UnmarshalInput ==
    /\ pc = "idle"
    /\ \E ss \in SeqsUpTo(Segments, MaxSegs) :
        LET t == Join(ss, <<";">>)
            r == UnmarshalText(d, t)
        IN  /\ segs' = ss
            /\ text' = t
            /\ dpre' = d
            /\ d' = r.csp
            /\ derr' = r.err
    /\ pc' = "decoded"
    /\ UNCHANGED <<c, out, serveVars, reportVars>>

NextDecode == UnmarshalInput

SpecDecode == InitDecode /\ [][NextDecode]_vars

(***************************************************************************)
(* The middleware scenario: handlers are wrapped with one policy and        *)
(* requests are routed to the handlers the wrap calls returned.            *)
(***************************************************************************)
ServePolicies ==
    {ZeroCSP, Default, [Default EXCEPT !.ReportOnly = TRUE],
     [ZeroCSP EXCEPT !.DefaultSrc = <<SourceSelf>>, !.ReportTo = <<"x">>, !.ReportOnly = TRUE]}

Downstream == {"h1", "h2"}

\* Response headers already set when the wrapper is entered.
InitialHeaders ==
    {{}, {<<"Content-Type", "text/html">>}, {<<"Cache-Control", "no-store">>}}

InitServe ==
    /\ c \in ServePolicies
    /\ pc = "off" /\ out = NoResult
    /\ d = ZeroCSP /\ dpre = ZeroCSP /\ text = NoText /\ derr = Nil /\ segs = <<>>
    /\ ServeIdle
    /\ ReportIdle

\* mux.Handle(path, c.Handler(h))
Wrap ==
    /\ \E h \in Downstream :
        /\ c' = Handler(c, h)
        /\ wrapped' = wrapped \cup {h}
    /\ UNCHANGED <<pc, out, d, dpre, text, derr, segs, req, reportVars>>

\* A request reaches the handler that c.Handler(via) returned, which is c.
Serve ==
    /\ \E via \in wrapped, hd \in InitialHeaders :
        LET r == ServeHTTP(c, hd)
        IN  req' = [via |-> via, before |-> hd, header |-> r.header, calls |-> r.calls]
    /\ UNCHANGED <<codecVars, wrapped, reportVars>>

NextServe == Wrap \/ Serve

SpecServe == InitServe /\ [][NextServe]_vars

(***************************************************************************)
(* The report scenario: a handler is built by RouteHandler(opts...) and    *)
(* serves one request.                                                     *)
(***************************************************************************)
\* Most options given to RouteHandler.
MaxOpts == 2

OptKinds == {"reporter", "errorHandler", "both", "other"}

ContentTypes ==
    {ReportContentType, "application/json", "application/csp-report; charset=utf-8", ""}

Str(x) == [Null EXCEPT !.kind = "string", !.s = x]
Num(n) == [Null EXCEPT !.kind = "number", !.n = n]
Obj(members) == [Null EXCEPT !.kind = "object", !.m = members]

\* The report of csp_test.go (reportString).
ExampleReport ==
    ("document-uri" :> Str("http://example.com/signup.html"))
        @@ ("referrer" :> Str(""))
        @@ ("blocked-uri" :> Str("http://example.com/css/style.css"))
        @@ ("violated-directive" :> Str("style-src cdn.example.com"))
        @@ ("original-policy" :> Str("default-src 'none'; style-src cdn.example.com; report-uri /_/csp-reports"))
        @@ ("disposition" :> Str("report"))

ReportObjects ==
    {ExampleReport,
     NoMembers,
     ("effective-directive" :> Str("style-src")) @@ ("status" :> Num(200)),
     ("disposition" :> Null) @@ ("line-number" :> Num(7)) @@ ("referrer" :> Str("r")),
     ("status" :> Str("200")) @@ ("referrer" :> Str("r")),
     ("blocked-uri" :> Num(1))}

Docs ==
    {[Null EXCEPT !.kind = "malformed"], [Null EXCEPT !.kind = "array"], Null,
     Obj(NoMembers), Obj("csp-report" :> Str("x")), Obj("other" :> Str("x"))}
        \cup {Obj("csp-report" :> Obj(r)) : r \in ReportObjects}

Bodies == [readErr : {Nil, "unexpected EOF"}, json : Docs]

\* What the configured reportHandler's Report returns.
SinkReturns(kind, r) ==
    IF kind = "default" THEN {defaultLogReporterReport(r)} ELSE {Nil, "sink failed"}

\* errorHandler.Error(w, r, status, err) appended to the log lg.
CallError(lg, status, err) ==
    /\ log' = Append(lg, Event("Error", status, err, ZeroReport))
    /\ w' = IF handlers.error = "default"
            THEN defaultErrorHandlerError(w, status, err)
            ELSE w

InitReport ==
    /\ CodecIdle
    /\ ServeIdle
    /\ handlers \in {RouteHandler(opts) : opts \in SeqsUpTo(OptKinds, MaxOpts)}
    /\ rq \in [contentType : ContentTypes, body : Bodies]
    /\ hpc = "start"
    /\ log = <<>>
    /\ w = NewWriter
    /\ io = [read |-> FALSE, closed |-> FALSE]
    /\ rep = ZeroReport

\* Mutant: the return after the error hook is missing.
CheckContentType_NoReturn ==
    /\ hpc = "start"
    /\ IF rq.contentType # ReportContentType
       THEN CallError(log, StatusUnsupportedMediaType, ErrUnsupported)
       ELSE UNCHANGED <<log, w>>
    /\ hpc' = "read"
    /\ UNCHANGED <<codecVars, serveVars, handlers, rq, io, rep>>

\* contentType := r.Header.Get("Content-Type"); if contentType != ReportContentType
CheckContentType ==
    /\ hpc = "start"
    /\ IF rq.contentType # ReportContentType
       THEN /\ CallError(log, StatusUnsupportedMediaType, ErrUnsupported)
            /\ hpc' = "done"
       ELSE /\ hpc' = "read"
            /\ UNCHANGED <<log, w>>
    /\ UNCHANGED <<codecVars, serveVars, handlers, rq, io, rep>>

\* body, err := ioutil.ReadAll(r.Body); defer r.Body.Close()
ReadBody ==
    /\ hpc = "read"
    /\ LET lg == Append(log, Event("ReadAll", 0, rq.body.readErr, ZeroReport))
       IN  IF rq.body.readErr # Nil
           THEN /\ CallError(lg, StatusBadRequest, rq.body.readErr)
                /\ io' = [read |-> TRUE, closed |-> TRUE]
                /\ hpc' = "done"
           ELSE /\ log' = lg
                /\ io' = [read |-> TRUE, closed |-> FALSE]
                /\ hpc' = "decode"
                /\ UNCHANGED w
    /\ UNCHANGED <<codecVars, serveVars, handlers, rq, rep>>

\* Mutant: the error of json.Unmarshal is not checked.
DecodeBody_IgnoreErr ==
    /\ hpc = "decode"
    /\ rep' = jsonUnmarshal(rq.body.json).rep
    /\ hpc' = "dispatch"
    /\ UNCHANGED <<codecVars, serveVars, handlers, rq, log, w, io>>

\* rep := cspReport{}; err = json.Unmarshal(body, &rep)
DecodeBody ==
    /\ hpc = "decode"
    /\ LET r == jsonUnmarshal(rq.body.json)
       IN  /\ rep' = r.rep
           /\ IF r.err # Nil
              THEN /\ CallError(log, StatusBadRequest, r.err)
                   /\ io' = [io EXCEPT !.closed = TRUE]
                   /\ hpc' = "done"
              ELSE /\ hpc' = "dispatch"
                   /\ UNCHANGED <<log, w, io>>
    /\ UNCHANGED <<codecVars, serveVars, handlers, rq>>

\* Mutant: the return after the error hook is missing.
Dispatch_NoReturn ==
    /\ hpc = "dispatch"
    /\ \E ret \in SinkReturns(handlers.report, rep) :
        LET lg == Append(log, Event("Report", 0, ret, rep))
        IN  IF ret # Nil
            THEN CallError(lg, StatusInternalServerError, ret)
            ELSE log' = lg /\ UNCHANGED w
    /\ hpc' = "ok"
    /\ UNCHANGED <<codecVars, serveVars, handlers, rq, rep, io>>

\* Mutant: the envelope is passed on without its decoded report.
Dispatch_ZeroReport ==
    /\ hpc = "dispatch"
    /\ \E ret \in SinkReturns(handlers.report, ZeroReport) :
        LET lg == Append(log, Event("Report", 0, ret, ZeroReport))
        IN  IF ret # Nil
            THEN /\ CallError(lg, StatusInternalServerError, ret)
                 /\ io' = [io EXCEPT !.closed = TRUE]
                 /\ hpc' = "done"
            ELSE /\ log' = lg
                 /\ hpc' = "ok"
                 /\ UNCHANGED <<w, io>>
    /\ UNCHANGED <<codecVars, serveVars, handlers, rq, rep>>

\* err = reportHandler.Report(rep.Report)
Dispatch ==
    /\ hpc = "dispatch"
    /\ \E ret \in SinkReturns(handlers.report, rep) :
        LET lg == Append(log, Event("Report", 0, ret, rep))
        IN  IF ret # Nil
            THEN /\ CallError(lg, StatusInternalServerError, ret)
                 /\ io' = [io EXCEPT !.closed = TRUE]
                 /\ hpc' = "done"
            ELSE /\ log' = lg
                 /\ hpc' = "ok"
                 /\ UNCHANGED <<w, io>>
    /\ UNCHANGED <<codecVars, serveVars, handlers, rq, rep>>

\* w.WriteHeader(http.StatusOK)
WriteOK ==
    /\ hpc = "ok"
    /\ w' = WriteHeader(w, StatusOK)
    /\ log' = Append(log, Event("WriteHeader", StatusOK, Nil, ZeroReport))
    /\ io' = [io EXCEPT !.closed = TRUE]
    /\ hpc' = "done"
    /\ UNCHANGED <<codecVars, serveVars, handlers, rq, rep>>

NextReport == CheckContentType \/ ReadBody \/ DecodeBody \/ Dispatch \/ WriteOK

SpecReport == InitReport /\ [][NextReport]_vars

(***************************************************************************)
(* Properties of the codec.                                                *)
(***************************************************************************)
Fields13 == SrcFields \cup {"ReportTo"}

\* The directive table in canonical order: default-src, then the other fetch
\* directives by name, then report-to.
CanonicalDirectives ==
    << <<"DefaultSrc", defaultSrc>>, <<"ChildSrc", childSrc>>,
       <<"ConnectSrc", connectSrc>>, <<"FontSrc", fontSrc>>,
       <<"FrameSrc", frameSrc>>, <<"ImgSrc", imgSrc>>,
       <<"ManifestSrc", manifestSrc>>, <<"MediaSrc", mediaSrc>>,
       <<"ObjectSrc", objectSrc>>, <<"ScriptSrc", scriptSrc>>,
       <<"StyleSrc", styleSrc>>, <<"WorkerSrc", workerSrc>>,
       <<"ReportTo", reportTo>> >>

RefValue(P, f) == IF f = "ReportTo" THEN P.ReportTo ELSE Join(P[f], <<" ">>)

RECURSIVE RefEntries(_, _)
RefEntries(P, i) ==
    IF i > Len(CanonicalDirectives) THEN <<>>
    ELSE LET e == CanonicalDirectives[i]
         IN  (IF P[e[1]] = <<>> THEN <<>>
              ELSE <<e[2] \o <<" ">> \o RefValue(P, e[1])>>)
                 \o RefEntries(P, i + 1)

\* The reference encoding: present directives in canonical order, joined by "; ".
RefEncoding(P) == Join(RefEntries(P, 1), <<";", " ">>)

Has(s, ch) == \E i \in DOMAIN s : s[i] = ch

AllTokens(P) == UNION {{P[f][i] : i \in DOMAIN P[f]} : f \in SrcFields}

\* The precondition of the round trip as the claim states it.
CleanAsClaimed(P) ==
    /\ \A t \in AllTokens(P) : t # <<>> /\ ~Has(t, " ") /\ ~Has(t, ";")
    /\ ~Has(P.ReportTo, ";")

\* The precondition under which the round trip holds.
Clean(P) ==
    /\ \A t \in AllTokens(P) :
          t # <<>> /\ ~Has(t, ";") /\ \A i \in DOMAIN t : ~IsSpace(t[i])
    /\ ~Has(P.ReportTo, ";")
    /\ TrimSpace(P.ReportTo) = P.ReportTo

\* C1 as stated: every policy whose tokens are non-empty and hold no space and
\* no ';', and whose report-to holds no ';', is decoded from its own encoding
\* without error into a policy equal to it in every field.
C1_RoundTripAsClaimed ==
    (pc = "unmarshalled" /\ CleanAsClaimed(c)) => (derr = Nil /\ d = c)

\* C1 amended: when the tokens are non-empty and hold no whitespace and no ';',
\* and report-to holds no ';' and no leading or trailing whitespace, decoding
\* the encoding into a fresh policy returns no error and restores all thirteen
\* directive slots; ReportOnly and the wrapped handler stay at their zero values.
C1_RoundTrip ==
    (pc = "unmarshalled" /\ Clean(c)) =>
        /\ derr = Nil
        /\ \A f \in Fields13 : d[f] = c[f]
        /\ d.ReportOnly = FALSE
        /\ d.h = Nil

\* A round trip of a clean policy with two directives, one of two distinct tokens.
C1_Witness ==
    /\ pc = "unmarshalled"
    /\ Clean(c)
    /\ Cardinality({f \in Fields13 : c[f] # <<>>}) = 2
    /\ \E f \in SrcFields : Len(c[f]) = 2 /\ c[f][1] # c[f][2]
    /\ d = c

\* C2: MarshalText returns a nil error and exactly the reference encoding of the
\* policy, for every policy.
C2_MarshalIsReference ==
    pc \in {"marshalled", "unmarshalled"} =>
        (out.err = Nil /\ out.txt = RefEncoding(c))

(***************************************************************************)
(* Properties of decoding a foreign text.                                  *)
(***************************************************************************)
FirstSpace(t) == CHOOSE i \in DOMAIN t : t[i] = " " /\ \A j \in 1..(i - 1) : t[j] # " "

\* The row of the directive table with the given wire name, or 0.
TableRow(name) ==
    IF \E i \in DOMAIN CanonicalDirectives : CanonicalDirectives[i][2] = name
    THEN CHOOSE i \in DOMAIN CanonicalDirectives : CanonicalDirectives[i][2] = name
    ELSE 0

\* How the claims read one segment: the trimmed text is cut at its first space
\* into a directive name and a value, both without surrounding whitespace.  A
\* well-formed segment has a space and a known name; field is then its slot and
\* value what the slot is to hold (tokens split on single spaces, or the scalar).
Reading(seg) ==
    LET t == TrimSpace(seg)
    IN  IF ~Has(t, " ") THEN [ok |-> FALSE, field |-> "", value |-> <<>>]
        ELSE LET i == FirstSpace(t)
                 row == TableRow(TrimSpace(SubSeq(t, 1, i - 1)))
                 rest == TrimSpace(SubSeq(t, i + 1, Len(t)))
             IN  IF row = 0 THEN [ok |-> FALSE, field |-> "", value |-> <<>>]
                 ELSE [ok |-> TRUE,
                       field |-> CanonicalDirectives[row][1],
                       value |-> IF CanonicalDirectives[row][1] = "ReportTo"
                                 THEN rest ELSE Split(rest, " ")]

Recognised(seg) == Reading(seg).ok

RECURSIVE Readings(_)
Readings(ss) == IF ss = <<>> THEN <<>> ELSE <<Reading(Head(ss))>> \o Readings(Tail(ss))

\* C3: decoding never fails; segments that are empty, blank, bare or of unknown
\* name change nothing (alone they leave the policy as it was, and dropping
\* them from the text does not change the result); a recognised segment is
\* decoded into its slot whatever else the text holds.
C3_DecodeTolerant ==
    pc = "decoded" =>
        LET rd == Readings(segs)
        IN  /\ derr = Nil
            /\ (\A i \in DOMAIN rd : ~rd[i].ok) => d = dpre
            /\ d = UnmarshalText(dpre, Join(SelectSeq(segs, Recognised), <<";">>)).csp
            /\ \A i \in DOMAIN rd :
                  (/\ rd[i].ok
                   /\ \A j \in DOMAIN rd \ {i} : rd[j].ok => rd[j].field # rd[i].field)
                      => d[rd[i].field] = rd[i].value

\* A text that starts with an ignored segment and still has its recognised
\* segment decoded.
C3_Witness ==
    /\ pc = "decoded"
    /\ Len(segs) = 2
    /\ ~Recognised(segs[1])
    /\ segs[1] # <<>>
    /\ Recognised(segs[2])
    /\ d # dpre
    /\ derr = Nil

\* C10: the call keeps ReportOnly, the wrapped handler and every slot that no
\* well-formed segment names; a named slot holds the value of the last
\* well-formed segment naming it.
C10_DecodeFrame ==
    pc = "decoded" =>
        LET rd == Readings(segs)
            named == {rd[i].field : i \in {j \in DOMAIN rd : rd[j].ok}}
        IN  /\ d.ReportOnly = dpre.ReportOnly
            /\ d.h = dpre.h
            /\ \A f \in Fields13 \ named : d[f] = dpre[f]
            /\ \A f \in named :
                  LET idx == {i \in DOMAIN rd : rd[i].ok /\ rd[i].field = f}
                  IN  d[f] = rd[CHOOSE i \in idx : \A j \in idx : j <= i].value

\* A text naming one directive twice, decoded into a policy in use: the second
\* value wins and the other slots, the flag and the handler are kept.
C10_Witness ==
    /\ pc = "decoded"
    /\ dpre.ReportOnly /\ dpre.h # Nil /\ dpre.ImgSrc # <<>>
    /\ Len(segs) = 2
    /\ Recognised(segs[1]) /\ Recognised(segs[2])
    /\ Reading(segs[1]).field = "DefaultSrc" /\ Reading(segs[2]).field = "DefaultSrc"
    /\ Reading(segs[1]).value # Reading(segs[2]).value
    /\ d.DefaultSrc = Reading(segs[2]).value
    /\ d.DefaultSrc # dpre.DefaultSrc
    /\ d.ImgSrc = dpre.ImgSrc /\ d.ReportOnly /\ d.h = dpre.h

(***************************************************************************)
(* Properties of the report route.                                         *)
(***************************************************************************)
Kinds(lg, kind) == SelectSeq(lg, LAMBDA e : e.kind = kind)

KeyKind(key) ==
    IF \E t \in ReportTags : t[2] = key
    THEN (CHOOSE t \in ReportTags : t[2] = key)[3]
    ELSE "any"

\* A report object whose known members have the JSON kind of their field (or are null).
WellTyped(members) ==
    \A key \in DOMAIN members :
        KeyKind(key) = "any" \/ members[key].kind \in {KeyKind(key), "null"}

\* A body text that is no JSON document, or no envelope: not an object, or
\* with a "csp-report" member that is no report object.
Undecodable(doc) ==
    \/ doc.kind \in {"malformed", "array", "string", "number"}
    \/ /\ doc.kind = "object"
       /\ "csp-report" \in DOMAIN doc.m
       /\ \/ doc.m["csp-report"].kind \notin {"object", "null"}
          \/ /\ doc.m["csp-report"].kind = "object"
             /\ ~WellTyped(doc.m["csp-report"].m)

\* A well-formed envelope {"csp-report": R}, R an object with well-typed members.
IsEnvelope(doc) ==
    /\ doc.kind = "object"
    /\ "csp-report" \in DOMAIN doc.m
    /\ doc.m["csp-report"].kind = "object"
    /\ WellTyped(doc.m["csp-report"].m)

\* The report with the fields of R, absent (or null) members at their default.
ReportOf(members) ==
    [f \in DOMAIN ZeroReport |->
        LET t == CHOOSE x \in ReportTags : x[1] = f
        IN  IF t[2] \in DOMAIN members /\ members[t[2]].kind # "null"
            THEN (IF t[3] = "number" THEN members[t[2]].n ELSE members[t[2]].s)
            ELSE ZeroReport[f]]

\* C4: with any Content-Type other than "application/csp-report" the body is
\* never read, the sink never called and 200 never written by the handler, and
\* the handler ends having called the error hook exactly once, with 415.
C4_ContentTypeGate ==
    (hpc # "off" /\ rq.contentType # ReportContentType) =>
        /\ ~io.read
        /\ \A i \in DOMAIN log : log[i].kind = "Error"
        /\ hpc \in {"start", "done"}
        /\ hpc = "done" =>
              log = <<Event("Error", StatusUnsupportedMediaType, ErrUnsupported, ZeroReport)>>

\* A request with a media-type parameter, rejected through an injected error hook.
C4_Witness ==
    /\ hpc = "done"
    /\ rq.contentType = "application/csp-report; charset=utf-8"
    /\ handlers.error = "errorHandler"
    /\ Len(log) = 1 /\ log[1].status = StatusUnsupportedMediaType
    /\ ~io.read

\* C5: with the right content type, a body that cannot be read or is no JSON
\* envelope ends in exactly one call of the error hook, with 400 and the read or
\* decode error; the sink is not called and the handler writes no 200.
C5_BadRequest ==
    (/\ hpc = "done"
     /\ rq.contentType = ReportContentType
     /\ (rq.body.readErr # Nil \/ Undecodable(rq.body.json))) =>
        LET e == IF rq.body.readErr # Nil THEN rq.body.readErr
                 ELSE IF rq.body.json.kind = "malformed" THEN ErrSyntax ELSE ErrType
        IN  /\ Kinds(log, "Error") = <<Event("Error", StatusBadRequest, e, ZeroReport)>>
            /\ Kinds(log, "Report") = <<>>
            /\ Kinds(log, "WriteHeader") = <<>>

\* A readable body that is not JSON, refused with 400.
C5_Witness ==
    /\ hpc = "done"
    /\ rq.contentType = ReportContentType
    /\ rq.body.readErr = Nil
    /\ rq.body.json.kind = "malformed"
    /\ io.read
    /\ Len(log) = 2 /\ log[2].kind = "Error" /\ log[2].status = StatusBadRequest

\* C6: when the sink returns an error e, the handler ends having called the
\* sink once and the error hook once, with 500 and e, and writes no 200.
C6_SinkFailure ==
    (hpc \in {"ok", "done"} /\ \E i \in DOMAIN log : log[i].kind = "Report" /\ log[i].err # Nil) =>
        LET e == Kinds(log, "Report")[1].err
        IN  /\ hpc = "done"
            /\ Len(Kinds(log, "Report")) = 1
            /\ Kinds(log, "Error") = <<Event("Error", StatusInternalServerError, e, ZeroReport)>>
            /\ log[Len(log)].kind = "Error"
            /\ Kinds(log, "WriteHeader") = <<>>

\* A decoded report refused by the injected sink.
C6_Witness ==
    /\ hpc = "done"
    /\ handlers.report = "reporter"
    /\ Len(log) = 3
    /\ log[2].kind = "Report" /\ log[2].err = "sink failed"
    /\ log[3].kind = "Error" /\ log[3].status = StatusInternalServerError

\* C7: a well-formed envelope with the right content type and a sink that
\* returns no error ends with the sink called once with the report of the
\* envelope, then 200 written, no error hook call and an empty body; the 200 is
\* never written before the sink was called.
C7_HappyPath ==
    /\ \A i \in DOMAIN log :
          log[i].kind = "WriteHeader" => \E j \in 1..(i - 1) : log[j].kind = "Report"
    /\ (/\ hpc = "done"
        /\ rq.contentType = ReportContentType
        /\ rq.body.readErr = Nil
        /\ IsEnvelope(rq.body.json)
        /\ \A i \in DOMAIN log : log[i].kind = "Report" => log[i].err = Nil) =>
           /\ Kinds(log, "Report") =
                 <<Event("Report", 0, Nil, ReportOf(rq.body.json.m["csp-report"].m))>>
           /\ Kinds(log, "Error") = <<>>
           /\ log[Len(log)] = Event("WriteHeader", StatusOK, Nil, ZeroReport)
           /\ ResponseStatus(w) = StatusOK
           /\ w.body = <<>>

\* The report of the test suite delivered to an injected sink.
C7_Witness ==
    /\ hpc = "done"
    /\ handlers.report = "reporter"
    /\ rq.body.json = Obj("csp-report" :> Obj(ExampleReport))
    /\ Len(log) = 3
    /\ log[2].kind = "Report"
    /\ log[2].rep.DocumentURI = "http://example.com/signup.html"
    /\ log[2].rep.Disposition = "report"
    /\ log[2].rep.EffectiveDirective = ""
    /\ ResponseStatus(w) = StatusOK

\* C8: with the default error hook, a failure with status s and error e ends in
\* a response of status s whose body is e's message.
C8_DefaultErrorHook ==
    (hpc = "done" /\ handlers.error = "default" /\ Kinds(log, "Error") # <<>>) =>
        /\ ResponseStatus(w) = Kinds(log, "Error")[1].status
        /\ w.body = <<Kinds(log, "Error")[1].err>>

(***************************************************************************)
(* Properties of the middleware.                                           *)
(***************************************************************************)
PolicyHeaders(header) == {e \in header : e[1] \in {HeaderPolicy, HeaderReportOnly}}

\* C9: a request through the handler that c.Handler(h) returned invokes h
\* exactly once, and h sees exactly one policy header, named by ReportOnly and
\* holding the encoded policy.
C9_Middleware ==
    req # NoReq =>
        /\ Len(req.calls) = 1
        /\ req.calls[1].h = req.via
        /\ PolicyHeaders(req.calls[1].header) =
              {<<IF c.ReportOnly THEN HeaderReportOnly ELSE HeaderPolicy, RefEncoding(c)>>}

====
